---- MODULE Spec2Model ----
(***************************************************************************)
(* Model of the arcadepay balance-mutation and redemption core:            *)
(*   server/routes.ts   - the request handlers (topup, promotion redeem,   *)
(*                        reward redeem, admin reward claim)               *)
(*   server/storage.ts  - DbStorage (updateUserBalance, redeemPromotion,   *)
(*                        redeemReward, createTransaction, logAdminAction) *)
(*   shared/schema.ts   - the tables                                       *)
(*                                                                         *)
(* Every request is a process with a program counter; one step is one      *)
(* awaited store call (the handlers are async functions, so requests       *)
(* interleave exactly at the awaits).  A db.transaction block runs under   *)
(* PostgreSQL's default READ COMMITTED isolation: each SELECT inside it    *)
(* sees the rows committed at that moment, its writes become visible       *)
(* together at COMMIT, and a throw inside it rolls all of them back.       *)
(* Money amounts are integers in hundredths (centavos).                    *)
(***************************************************************************)
EXTENDS Integers, FiniteSets, Sequences, TLC

VARIABLES
    users,                \* users table: id -> [role, coinBalance, pointBalance]
    transactions,         \* transactions table: set of rows
    promotions,           \* promotions table: id -> row
    promotionRedemptions, \* promotion_redemptions table: set of rows
    rewards,              \* rewards table: id -> row
    rewardRedemptions,    \* reward_redemptions table: set of rows
    adminActions,         \* admin_actions table: set of rows
    now,                  \* the server clock (new Date())
    req                   \* the requests: slot -> handler state

vars == <<users, transactions, promotions, promotionRedemptions, rewards,
          rewardRedemptions, adminActions, now, req>>

store == <<users, transactions, promotions, promotionRedemptions, rewards,
           rewardRedemptions, adminActions>>

-----------------------------------------------------------------------------
(* Bounds *)

\* number of request slots (concurrent requests)
NumReq == 2

Reqs == 1..NumReq

\* number of requests of a sequential run (one after the other)
RunLen == 3

RunReqs == 1..RunLen

\* the last instant of the server clock
MaxNow == 3

-----------------------------------------------------------------------------
(* Identifiers and fixtures *)

UserIds == {"u1", "u2", "adm"}
NoUser == "nobody"          \* an id that is in no users row
Anon == "anon"              \* the unauthenticated principal
PromoIds == {"p1", "p2"}
RewardIds == {"r1", "r2"}

\* users table rows (schema.ts users): role, coin_balance, point_balance
InitUsers ==
    [u \in UserIds |->
        IF u = "u1" THEN [role |-> "user", coinBalance |-> 0, pointBalance |-> 3]
        ELSE IF u = "u2" THEN [role |-> "user", coinBalance |-> 0, pointBalance |-> 2]
        ELSE [role |-> "admin", coinBalance |-> 0, pointBalance |-> 0]]

\* promotions table rows (schema.ts promotions)
InitPromotions ==
    [p \in PromoIds |->
        IF p = "p1"
        THEN [type |-> "bonus_points", value |-> 1, isActive |-> TRUE,
              startDate |-> 0, endDate |-> 2,
              hasMax |-> FALSE, maxRedemptions |-> 0, currentRedemptions |-> 0]
        ELSE [type |-> "extra_coins", value |-> 2, isActive |-> TRUE,
              startDate |-> 0, endDate |-> 2,
              hasMax |-> TRUE, maxRedemptions |-> 1, currentRedemptions |-> 0]]

\* rewards table rows (schema.ts rewards)
InitRewards ==
    [r \in RewardIds |->
        IF r = "r1"
        THEN [pointsRequired |-> 2, stock |-> 1, isActive |-> TRUE]
        ELSE [pointsRequired |-> 4, stock |-> 2, isActive |-> TRUE]]

\* the store of the sequential run: a new user u1 (both balances 0), a
\* bonus_points promotion worth 50 and a reward that costs 50 with 3 in stock
RunUsers ==
    [u \in UserIds |->
        IF u = "adm" THEN [role |-> "admin", coinBalance |-> 0, pointBalance |-> 0]
        ELSE [role |-> "user", coinBalance |-> 0, pointBalance |-> 0]]

RunPromotions ==
    [p \in PromoIds |->
        IF p = "p1" THEN [InitPromotions[p] EXCEPT !.value = 50]
        ELSE InitPromotions[p]]

RunRewards ==
    [r \in RewardIds |->
        IF r = "r1" THEN [pointsRequired |-> 50, stock |-> 3, isActive |-> TRUE]
        ELSE InitRewards[r]]

\* a promotions table with every promotion type and every way of being
\* unavailable: p5 is switched off, p6 starts at 2, all but p6 end at 2
CatalogPromoIds == {"p1", "p2", "p3", "p4", "p5", "p6"}
NoPromo == "p0"             \* an id that is in no promotions row

CatalogPromotions ==
    [p \in CatalogPromoIds |->
        [type |-> CASE p = "p2" -> "extra_coins"
                    [] p = "p3" -> "discount"
                    [] p = "p4" -> "free_credits"
                    [] OTHER -> "bonus_points",
         value |-> CASE p = "p1" -> 1 [] p = "p2" -> 2 [] p = "p3" -> 3
                     [] p = "p4" -> 4 [] p = "p5" -> 5 [] OTHER -> 6,
         isActive |-> p # "p5",
         startDate |-> IF p = "p6" THEN 2 ELSE 0,
         endDate |-> IF p = "p6" THEN 3 ELSE 2,
         hasMax |-> FALSE, maxRedemptions |-> 0, currentRedemptions |-> 0]]

-----------------------------------------------------------------------------
(* Request bodies as JavaScript sees them *)

\* A body field: absent (undefined), an empty string or null, a string that
\* is no number, or a number / numeric string worth v hundredths.
Missing == [k |-> "missing", v |-> 0]
Empty == [k |-> "empty", v |-> 0]
Text == [k |-> "text", v |-> 0]
Num(v) == [k |-> "num", v |-> v]

\* a JavaScript number that may be NaN; v is in the unit the caller uses
NaN == [nan |-> TRUE, v |-> 0]
Val(v) == [nan |-> FALSE, v |-> v]

\* Number.isFinite(Number(x)): Number(undefined) and Number("abc") are NaN,
\* Number("") and Number(null) are 0
NumberIsFinite(x) == x.k \in {"empty", "num"}

\* truncation toward zero of v hundredths to whole units
TruncUnits(v) == IF v >= 0 THEN v \div 100 ELSE -((-v) \div 100)

\* parseInt(x), in whole units: the leading integer digits, NaN when none
ParseInt(x) == IF x.k = "num" THEN Val(TruncUnits(x.v)) ELSE NaN

\* parseFloat(x), in hundredths: NaN when x starts with no number
ParseFloat(x) == IF x.k = "num" THEN Val(x.v) ELSE NaN

\* (n || 0): NaN and 0 are falsy
OrZero(n) == IF n.nan THEN 0 ELSE n.v

\* const coinsToAdd = Number.isFinite(Number(coins)) ? parseInt(coins) : 0
CoinsToAdd(coins) == IF NumberIsFinite(coins) THEN ParseInt(coins) ELSE Val(0)

\* const amountPesos = Number.isFinite(Number(amount)) ? parseFloat(amount) : 0
AmountPesos(amount) == IF NumberIsFinite(amount) THEN ParseFloat(amount) ELSE Val(0)

\* (variant) the guard with < for <=: a request worth nothing is accepted
TopUpRejectedNegativeOnly(coins, amount) ==
    OrZero(CoinsToAdd(coins)) < 0 /\ OrZero(AmountPesos(amount)) < 0

\* the validation guard: (coinsToAdd || 0) <= 0 && (amountPesos || 0) <= 0
TopUpRejected(coins, amount) ==
    OrZero(CoinsToAdd(coins)) <= 0 /\ OrZero(AmountPesos(amount)) <= 0

\* the exchange rate: one point per 50 pesos, in hundredths
PesosPerPoint == 5000

\* (variant) Math.round for Math.floor
PointsToAddRounded(amount) ==
    (2 * OrZero(AmountPesos(amount)) + PesosPerPoint) \div (2 * PesosPerPoint)

\* const pointsToAdd = Math.floor((amountPesos || 0) / 50)
PointsToAdd(amount) == OrZero(AmountPesos(amount)) \div PesosPerPoint

-----------------------------------------------------------------------------
(* Handler state *)

\* a slot that holds no request
Idle ==
    [op |-> "idle", pc |-> "idle", principal |-> Anon, userId |-> NoUser,
     itemId |-> "none", coins |-> Missing, amount |-> Missing,
     coinDelta |-> 0, pointDelta |-> 0, pointsSpent |-> 0,
     rdCoin |-> 0, rdPoint |-> 0, rdStock |-> 0, rdCount |-> 0,
     promoType |-> "none", promoValue |-> 0, newStatus |-> "none",
     redemptionId |-> 0, hasNotes |-> FALSE,
     patch |-> [f |-> "none", v |-> 0],
     outRevenue |-> 0, outCount |-> 0, outAverage |-> [num |-> 0, den |-> 1],
     status |-> 0, msg |-> "", outPoints |-> 0, outCoinBal |-> 0, outPointBal |-> 0]

\* req.isAuthenticated(): passport resolved the session to a users row
IsAuthenticated(principal) == principal \in UserIds

\* (variant) requireAuth in the place of requireAdmin
IsAdminAnyRole(principal) == IsAuthenticated(principal)

\* requireAdmin's test: req.isAuthenticated() && req.user?.role === 'admin'
IsAdmin(principal) == IsAuthenticated(principal) /\ users[principal].role = "admin"

\* the handler answers: res.status(code).json({message}); locals are dead
Reply(r, code, message) ==
    [r EXCEPT !.pc = "done", !.status = code, !.msg = message,
              !.rdCoin = 0, !.rdPoint = 0, !.rdStock = 0, !.rdCount = 0]

\* slots are taken in order: the slot number is only a label
CanStart(q) ==
    /\ req[q].op = "idle"
    /\ IF q = 1 THEN TRUE ELSE req[q - 1].op # "idle"

Init ==
    /\ users = InitUsers
    /\ transactions = {}
    /\ promotions = InitPromotions
    /\ promotionRedemptions = {}
    /\ rewards = InitRewards
    /\ rewardRedemptions = {}
    /\ adminActions = {}
    /\ now = 1
    /\ req = [q \in Reqs |-> Idle]

-----------------------------------------------------------------------------
(* DbStorage.updateUserBalance: a read (getUser) and a separate write *)

\* (variant) the coin balance is floored at zero
NewCoinBalanceFloored(coinBalance, coinDelta) ==
    IF coinBalance + coinDelta < 0 THEN 0 ELSE coinBalance + coinDelta

\* const newCoinBalance = user.coinBalance + coinDelta
NewCoinBalance(coinBalance, coinDelta) == coinBalance + coinDelta

\* const newPointBalance = user.pointBalance + pointDelta
NewPointBalance(pointBalance, pointDelta) == pointBalance + pointDelta

\* const user = await this.getUser(userId); if (!user) throw "User not found".
\* Both callers catch the throw and answer 500 with the error's message.
UbRead(q) ==
    LET r == req[q] IN
    /\ r.pc = "ub_read"
    /\ req' = [req EXCEPT ![q] =
          IF r.userId \notin DOMAIN users
          THEN Reply(r, 500, "User not found")
          ELSE [r EXCEPT !.pc = "ub_write",
                         !.rdCoin = users[r.userId].coinBalance,
                         !.rdPoint = users[r.userId].pointBalance]]
    /\ UNCHANGED <<store, now>>

\* db.update(users).set({coinBalance, pointBalance}).where(id).returning():
\* the values computed from the row read in UbRead are written as they are
UbWrite(q) ==
    LET r == req[q]
        c == NewCoinBalance(r.rdCoin, r.coinDelta)
        p == NewPointBalance(r.rdPoint, r.pointDelta)
    IN
    /\ r.pc = "ub_write"
    /\ users' = [users EXCEPT ![r.userId].coinBalance = c,
                              ![r.userId].pointBalance = p]
    /\ req' = [req EXCEPT ![q] =
          [r EXCEPT !.pc = IF r.op = "topup" THEN "tu_createTx" ELSE "pr_createTx",
                    !.outCoinBal = c, !.outPointBal = p,
                    !.rdCoin = 0, !.rdPoint = 0]]
    /\ UNCHANGED <<transactions, promotions, promotionRedemptions, rewards,
                   rewardRedemptions, adminActions, now>>

-----------------------------------------------------------------------------
(* POST /api/admin/topup *)

\* requireAdmin, then the body is normalised and validated, and the points
\* are computed; the first store call (updateUserBalance) is the next step
TopUpAccept(r0) ==
    IF ~IsAdmin(r0.principal)
    THEN Reply(r0, 403, "Admin access required")
    ELSE IF TopUpRejected(r0.coins, r0.amount)
    THEN Reply(r0, 400, "Must specify amount and/or coins to add")
    ELSE [r0 EXCEPT !.pc = "ub_read",
                    !.coinDelta = OrZero(CoinsToAdd(r0.coins)),
                    !.pointDelta = PointsToAdd(r0.amount)]

TopUpStart(q, principals, targets, coinInputs, amountInputs) ==
    /\ CanStart(q)
    /\ \E pr \in principals, u \in targets, c \in coinInputs, a \in amountInputs :
          req' = [req EXCEPT ![q] =
              TopUpAccept([Idle EXCEPT !.op = "topup", !.principal = pr,
                                       !.userId = u, !.coins = c, !.amount = a])]
    /\ UNCHANGED <<store, now>>

\* (variant) the row is written with the column default status 'pending'
PurchaseRowPending(q, r) ==
    [id |-> q, userId |-> r.userId, type |-> "purchase",
     hasAmount |-> OrZero(AmountPesos(r.amount)) # 0,
     amount |-> OrZero(AmountPesos(r.amount)),
     coinsAdded |-> r.coinDelta, pointsEarned |-> r.pointDelta,
     status |-> "pending"]

\* the 'purchase' row: amount is amountPesos.toFixed(2), or NULL when
\* amountPesos is 0 or NaN; coinsAdded and pointsEarned are the same locals
\* that were passed to updateUserBalance
PurchaseRow(q, r) ==
    [id |-> q, userId |-> r.userId, type |-> "purchase",
     hasAmount |-> OrZero(AmountPesos(r.amount)) # 0,
     amount |-> OrZero(AmountPesos(r.amount)),
     coinsAdded |-> r.coinDelta, pointsEarned |-> r.pointDelta,
     status |-> "completed"]

\* (variant) an upsert: the user's earlier 'purchase' row is overwritten
TuCreateTxUpsert(q) ==
    LET r == req[q] IN
    /\ r.pc = "tu_createTx"
    /\ transactions' =
          {t \in transactions : t.userId # r.userId \/ t.type # "purchase"}
              \cup {PurchaseRow(q, r)}
    /\ req' = [req EXCEPT ![q].pc = "tu_logAdmin"]
    /\ UNCHANGED <<users, promotions, promotionRedemptions, rewards,
                   rewardRedemptions, adminActions, now>>

\* await storage.createTransaction({... type: 'purchase' ...})
TuCreateTx(q) ==
    LET r == req[q] IN
    /\ r.pc = "tu_createTx"
    /\ transactions' = transactions \cup {PurchaseRow(q, r)}
    /\ req' = [req EXCEPT ![q].pc = "tu_logAdmin"]
    /\ UNCHANGED <<users, promotions, promotionRedemptions, rewards,
                   rewardRedemptions, adminActions, now>>

\* (variant) the audit row names the admin as the target user
TopUpAuditRowOfAdmin(q, r) ==
    [id |-> q, adminId |-> r.principal, targetUserId |-> r.principal,
     action |-> "topup", coins |-> r.coinDelta,
     amount |-> OrZero(AmountPesos(r.amount)), points |-> r.pointDelta]

\* the 'topup' audit row
TopUpAuditRow(q, r) ==
    [id |-> q, adminId |-> r.principal, targetUserId |-> r.userId,
     action |-> "topup", coins |-> r.coinDelta,
     amount |-> OrZero(AmountPesos(r.amount)), points |-> r.pointDelta]

\* await storage.logAdminAction({... action: 'topup' ...}); res.json({...})
TuLogAdmin(q) ==
    LET r == req[q] IN
    /\ r.pc = "tu_logAdmin"
    /\ adminActions' = adminActions \cup {TopUpAuditRow(q, r)}
    /\ req' = [req EXCEPT ![q] =
          [Reply(r, 200, "Top-up recorded as purchase and points awarded")
              EXCEPT !.outPoints = r.pointDelta]]
    /\ UNCHANGED <<users, transactions, promotions, promotionRedemptions,
                   rewards, rewardRedemptions, now>>

-----------------------------------------------------------------------------
(* POST /api/promotions/redeem/:id *)

\* (variant) the end of the window is not tested
ActivePromotionsNoEnd ==
    {p \in DOMAIN promotions :
        promotions[p].isActive /\ promotions[p].startDate <= now}

\* getActivePromotions: isActive AND startDate <= now AND endDate >= now
ActivePromotions ==
    {p \in DOMAIN promotions :
        /\ promotions[p].isActive
        /\ promotions[p].startDate <= now
        /\ promotions[p].endDate >= now}

\* getUserPromotionRedemptions(u) joined with promotions, then
\* userRedemptions.some(r => r.promotion.id === promotionId)
AlreadyRedeemed(u, p) ==
    \E x \in promotionRedemptions :
        x.userId = u /\ x.promotionId = p /\ p \in DOMAIN promotions

\* the grant by promotion type: pointsEarned
PointsEarned(type, value) == IF type = "bonus_points" THEN value ELSE 0

\* (variant) every type but bonus_points grants its value in coins
CoinsEarnedAnyOther(type, value) == IF type = "bonus_points" THEN 0 ELSE value

\* the grant by promotion type: coinsEarned
CoinsEarned(type, value) ==
    IF type = "bonus_points" THEN 0
    ELSE IF type = "extra_coins" THEN value ELSE 0

\* requireAuth; the first store call (getActivePromotions) is the next step
PromoStart(q, principals, promos) ==
    /\ CanStart(q)
    /\ \E pr \in principals, p \in promos :
          LET r0 == [Idle EXCEPT !.op = "promo", !.principal = pr,
                                 !.userId = pr, !.itemId = p]
          IN req' = [req EXCEPT ![q] =
                IF ~IsAuthenticated(pr)
                THEN Reply(r0, 401, "Authentication required")
                ELSE [r0 EXCEPT !.pc = "pr_getActive"]]
    /\ UNCHANGED <<store, now>>

\* const promotions = await storage.getActivePromotions();
\* const promotion = promotions.find(p => p.id === promotionId)
PrGetActive(q) ==
    LET r == req[q] IN
    /\ r.pc = "pr_getActive"
    /\ req' = [req EXCEPT ![q] =
          IF r.itemId \notin ActivePromotions
          THEN Reply(r, 404, "Promotion not found or expired")
          ELSE [r EXCEPT !.pc = "pr_getRedeemed",
                         !.promoType = promotions[r.itemId].type,
                         !.promoValue = promotions[r.itemId].value]]
    /\ UNCHANGED <<store, now>>

\* the already-redeemed check, then the grant is computed from the promotion
\* object read in PrGetActive; storage.redeemPromotion is the next step
PrGetRedeemed(q) ==
    LET r == req[q] IN
    /\ r.pc = "pr_getRedeemed"
    /\ req' = [req EXCEPT ![q] =
          IF AlreadyRedeemed(r.userId, r.itemId)
          THEN Reply(r, 400, "Promotion already redeemed")
          ELSE [r EXCEPT !.pc = "pr_txSelect",
                         !.pointDelta = PointsEarned(r.promoType, r.promoValue),
                         !.coinDelta = CoinsEarned(r.promoType, r.promoValue)]]
    /\ UNCHANGED <<store, now>>

\* DbStorage.redeemPromotion, inside the transaction: the insert (pending
\* until COMMIT), then the SELECT of the promotion's counter
PrTxSelect(q) ==
    LET r == req[q] IN
    /\ r.pc = "pr_txSelect"
    /\ req' = [req EXCEPT ![q] =
          [r EXCEPT !.pc = "pr_txCommit",
                    !.rdCount = IF r.itemId \in DOMAIN promotions
                                THEN promotions[r.itemId].currentRedemptions
                                ELSE 0]]
    /\ UNCHANGED <<store, now>>

\* the promotion_redemptions row
PromotionRedemptionRow(q, r) ==
    [id |-> q, userId |-> r.userId, promotionId |-> r.itemId,
     pointsEarned |-> r.pointDelta, coinsEarned |-> r.coinDelta]

\* DbStorage.redeemPromotion: the UPDATE of the counter to the value read
\* plus one, and COMMIT: the row and the counter become visible together
PrTxCommit(q) ==
    LET r == req[q] IN
    /\ r.pc = "pr_txCommit"
    /\ promotionRedemptions' = promotionRedemptions \cup {PromotionRedemptionRow(q, r)}
    /\ promotions' =
          IF r.itemId \in DOMAIN promotions
          THEN [promotions EXCEPT ![r.itemId].currentRedemptions = r.rdCount + 1]
          ELSE promotions
    /\ req' = [req EXCEPT ![q] = [r EXCEPT !.pc = "ub_read", !.rdCount = 0]]
    /\ UNCHANGED <<users, transactions, rewards, rewardRedemptions,
                   adminActions, now>>

\* the 'promotion' ledger row
PromotionLedgerRow(q, r) ==
    [id |-> q, userId |-> r.userId, type |-> "promotion",
     hasAmount |-> FALSE, amount |-> 0,
     coinsAdded |-> r.coinDelta, pointsEarned |-> r.pointDelta,
     status |-> "completed"]

\* await storage.createTransaction({... type: 'promotion' ...}); res.json
PrCreateTx(q) ==
    LET r == req[q] IN
    /\ r.pc = "pr_createTx"
    /\ transactions' = transactions \cup {PromotionLedgerRow(q, r)}
    /\ req' = [req EXCEPT ![q] =
          [Reply(r, 200, "Promotion redeemed successfully")
              EXCEPT !.outPoints = r.pointDelta]]
    /\ UNCHANGED <<users, promotions, promotionRedemptions, rewards,
                   rewardRedemptions, adminActions, now>>

-----------------------------------------------------------------------------
(* POST /api/rewards/redeem/:id and POST /api/admin/rewards/claim *)

NoId == ""                  \* a body field that is missing or empty

\* requireAuth; the first store call (getRewardById) is the next step
RewardStart(q, principals, rewardIds) ==
    /\ CanStart(q)
    /\ \E pr \in principals, rw \in rewardIds :
          LET r0 == [Idle EXCEPT !.op = "reward", !.principal = pr,
                                 !.userId = pr, !.itemId = rw,
                                 !.newStatus = "pending"]
          IN req' = [req EXCEPT ![q] =
                IF ~IsAuthenticated(pr)
                THEN Reply(r0, 401, "Authentication required")
                ELSE [r0 EXCEPT !.pc = "rw_getReward"]]
    /\ UNCHANGED <<store, now>>

\* requireAdmin, then if (!userId || !rewardId) 400
ClaimStart(q, principals, targets, rewardIds) ==
    /\ CanStart(q)
    /\ \E pr \in principals, u \in targets, rw \in rewardIds :
          LET r0 == [Idle EXCEPT !.op = "claim", !.principal = pr,
                                 !.userId = u, !.itemId = rw,
                                 !.newStatus = "completed"]
          IN req' = [req EXCEPT ![q] =
                IF ~IsAdmin(pr)
                THEN Reply(r0, 403, "Admin access required")
                ELSE IF u = NoId \/ rw = NoId
                THEN Reply(r0, 400, "User ID and Reward ID are required")
                ELSE [r0 EXCEPT !.pc = "rw_getReward"]]
    /\ UNCHANGED <<store, now>>

\* const reward = await storage.getRewardById(id): 404 when absent, 400 when
\* !reward.isActive || reward.stock <= 0; reward.pointsRequired is kept as
\* the pointsSpent of the redemption
RwGetReward(q) ==
    LET r == req[q] IN
    /\ r.pc = "rw_getReward"
    /\ req' = [req EXCEPT ![q] =
          IF r.itemId \notin DOMAIN rewards
          THEN Reply(r, 404, "Reward not found")
          ELSE IF ~rewards[r.itemId].isActive \/ rewards[r.itemId].stock <= 0
          THEN Reply(r, 400, "Reward not available")
          ELSE [r EXCEPT !.pc = IF r.op = "claim" THEN "cl_getUser" ELSE "rr_selReward",
                         !.pointsSpent = rewards[r.itemId].pointsRequired]]
    /\ UNCHANGED <<store, now>>

\* admin claim: const user = await storage.getUser(userId): 404 when absent,
\* 400 when user.pointBalance < reward.pointsRequired
ClGetUser(q) ==
    LET r == req[q] IN
    /\ r.pc = "cl_getUser"
    /\ req' = [req EXCEPT ![q] =
          IF r.userId \notin DOMAIN users
          THEN Reply(r, 404, "User not found")
          ELSE IF users[r.userId].pointBalance < r.pointsSpent
          THEN Reply(r, 400, "User has insufficient points")
          ELSE [r EXCEPT !.pc = "rr_selReward"]]
    /\ UNCHANGED <<store, now>>

\* DbStorage.redeemReward, in the transaction: the reward is selected;
\* a throw is caught by the route, which answers 400 with its message
RrSelReward(q) ==
    LET r == req[q] IN
    /\ r.pc = "rr_selReward"
    /\ req' = [req EXCEPT ![q] =
          IF r.itemId \notin DOMAIN rewards
          THEN Reply(r, 400, "Reward not found")
          ELSE IF rewards[r.itemId].stock <= 0
          THEN Reply(r, 400, "Reward out of stock")
          ELSE [r EXCEPT !.pc = "rr_selUser", !.rdStock = rewards[r.itemId].stock]]
    /\ UNCHANGED <<store, now>>

\* (variant) only the user's existence is tested, the balance test is lost
InsufficientPointsUserOnly(u, pointsSpent) == u \notin DOMAIN users

\* !user[0] || user[0].pointBalance < redemption.pointsSpent
InsufficientPoints(u, pointsSpent) ==
    u \notin DOMAIN users \/ users[u].pointBalance < pointsSpent

\* DbStorage.redeemReward, in the transaction: the user is selected
RrSelUser(q) ==
    LET r == req[q] IN
    /\ r.pc = "rr_selUser"
    /\ req' = [req EXCEPT ![q] =
          IF InsufficientPoints(r.userId, r.pointsSpent)
          THEN Reply(r, 400, "Insufficient points")
          ELSE [r EXCEPT !.pc = "rr_write", !.rdPoint = users[r.userId].pointBalance]]
    /\ UNCHANGED <<store, now>>

\* (variant) the admin claim uses the self-service code prefix
RewardRedemptionRowSamePrefix(q, r) ==
    [id |-> q, userId |-> r.userId, rewardId |-> r.itemId,
     pointsSpent |-> r.pointsSpent, status |-> r.newStatus,
     codePrefix |-> "RWD-", codeNo |-> q,
     claimedAt |-> now, hasCompletedAt |-> FALSE, notes |-> ""]

\* the reward_redemptions row; the redemption code is prefix-Date.now()-random
\* (unique per request: the slot stands for the timestamp and random suffix)
RewardRedemptionRow(q, r) ==
    [id |-> q, userId |-> r.userId, rewardId |-> r.itemId,
     pointsSpent |-> r.pointsSpent, status |-> r.newStatus,
     codePrefix |-> IF r.op = "claim" THEN "ADMIN-" ELSE "RWD-", codeNo |-> q,
     claimedAt |-> now, hasCompletedAt |-> FALSE, notes |-> ""]

\* (variant) the ledger row carries the points spent as a positive number
RewardLedgerRowUnsigned(q, r) ==
    [id |-> q, userId |-> r.userId, type |-> "reward_redemption",
     hasAmount |-> FALSE, amount |-> 0,
     coinsAdded |-> 0, pointsEarned |-> r.pointsSpent,
     status |-> "completed"]

\* the 'reward_redemption' ledger row
RewardLedgerRow(q, r) ==
    [id |-> q, userId |-> r.userId, type |-> "reward_redemption",
     hasAmount |-> FALSE, amount |-> 0,
     coinsAdded |-> 0, pointsEarned |-> -r.pointsSpent,
     status |-> "completed"]

\* (variant) the stock UPDATE decrements the row as it is at the write
\* (SET stock = stock - 1) instead of the value selected earlier
RrStoreRelative(q, r, n) ==
    [rewardRedemptions |->
        IF n >= 1 THEN rewardRedemptions \cup {RewardRedemptionRow(q, r)}
        ELSE rewardRedemptions,
     users |->
        IF n >= 2
        THEN [users EXCEPT ![r.userId].pointBalance = r.rdPoint - r.pointsSpent]
        ELSE users,
     rewards |->
        IF n >= 3 /\ r.itemId \in DOMAIN rewards
        THEN [rewards EXCEPT ![r.itemId].stock = rewards[r.itemId].stock - 1]
        ELSE rewards,
     transactions |->
        IF n >= 4 THEN transactions \cup {RewardLedgerRow(q, r)}
        ELSE transactions]

\* The store after the first n of the transaction's four write statements
\* are durable (1 the redemption insert, 2 the user's points, 3 the stock,
\* 4 the ledger insert).  The UPDATEs set the values computed from the rows
\* selected earlier in the transaction.
RrStore(q, r, n) ==
    [rewardRedemptions |->
        IF n >= 1 THEN rewardRedemptions \cup {RewardRedemptionRow(q, r)}
        ELSE rewardRedemptions,
     users |->
        IF n >= 2
        THEN [users EXCEPT ![r.userId].pointBalance = r.rdPoint - r.pointsSpent]
        ELSE users,
     rewards |->
        IF n >= 3 /\ r.itemId \in DOMAIN rewards
        THEN [rewards EXCEPT ![r.itemId].stock = r.rdStock - 1]
        ELSE rewards,
     transactions |->
        IF n >= 4 THEN transactions \cup {RewardLedgerRow(q, r)}
        ELSE transactions]

\* (variant) the writes go to db instead of tx: each statement autocommits
RrDurableAutocommit(k, committed) == IF committed THEN 4 ELSE k

\* db.transaction(async (tx) => ...): how many of the k write statements
\* that ran are durable.  All four after COMMIT; none after a throw, which
\* rolls the transaction back.
RrDurable(k, committed) == IF committed THEN 4 ELSE 0

\* DbStorage.redeemReward: the four writes and COMMIT
RrCommit(q) ==
    LET r == req[q]
        s == RrStore(q, r, RrDurable(4, TRUE))
    IN
    /\ r.pc = "rr_write"
    /\ rewardRedemptions' = s.rewardRedemptions
    /\ users' = s.users
    /\ rewards' = s.rewards
    /\ transactions' = s.transactions
    /\ req' = [req EXCEPT ![q] =
          IF r.op = "claim"
          THEN [r EXCEPT !.pc = "cl_logAdmin", !.rdStock = 0, !.rdPoint = 0]
          ELSE Reply(r, 200, "")]
    /\ UNCHANGED <<promotions, promotionRedemptions, adminActions, now>>

\* DbStorage.redeemReward fails after k of its write statements (k = 4: the
\* COMMIT itself fails, or the request times out before it): the transaction
\* is rolled back and the route answers 400 with the error's message
RrWriteFail(q) ==
    LET r == req[q] IN
    /\ r.pc = "rr_write"
    /\ \E k \in 0..4 :
          LET s == RrStore(q, r, RrDurable(k, FALSE)) IN
          /\ rewardRedemptions' = s.rewardRedemptions
          /\ users' = s.users
          /\ rewards' = s.rewards
          /\ transactions' = s.transactions
    /\ req' = [req EXCEPT ![q] = Reply(r, 400, "transaction rolled back")]
    /\ UNCHANGED <<promotions, promotionRedemptions, adminActions, now>>

\* the 'admin_reward_claim' audit row
ClaimAuditRow(q, r) ==
    [id |-> q, adminId |-> r.principal, targetUserId |-> r.userId,
     action |-> "admin_reward_claim", coins |-> 0, amount |-> 0,
     points |-> r.pointsSpent]

\* await storage.logAdminAction({... 'admin_reward_claim' ...}); res.json
ClLogAdmin(q) ==
    LET r == req[q] IN
    /\ r.pc = "cl_logAdmin"
    /\ adminActions' = adminActions \cup {ClaimAuditRow(q, r)}
    /\ req' = [req EXCEPT ![q] = Reply(r, 200, "Reward claimed successfully for user")]
    /\ UNCHANGED <<users, transactions, promotions, promotionRedemptions,
                   rewards, rewardRedemptions, now>>

-----------------------------------------------------------------------------
(* PUT /api/admin/rewards/redemptions/:id/status *)

NoRedemption == 0           \* an id that is in no reward_redemptions row

\* requireAdmin, then const { status, notes } = req.body; the first store
\* call (updateRewardRedemptionStatus) is the next step
StatusStart(q, principals, ids, statuses, noteInputs) ==
    /\ CanStart(q)
    /\ \E pr \in principals, i \in ids, st \in statuses, n \in noteInputs :
          LET r0 == [Idle EXCEPT !.op = "status", !.principal = pr,
                                 !.redemptionId = i, !.newStatus = st,
                                 !.hasNotes = n]
          IN req' = [req EXCEPT ![q] =
                IF ~IsAdmin(pr)
                THEN Reply(r0, 403, "Admin access required")
                ELSE [r0 EXCEPT !.pc = "us_update"]]
    /\ UNCHANGED <<store, now>>

\* const updates = { status }; completedAt = new Date() when status is
\* 'completed'; notes when notes is truthy
UpdatedRedemption(x, status, hasNotes) ==
    [x EXCEPT !.status = status,
              !.hasCompletedAt = IF status = "completed" THEN TRUE ELSE @,
              !.notes = IF hasNotes THEN "note" ELSE @]

\* DbStorage.updateRewardRedemptionStatus: one UPDATE ... WHERE id = :id,
\* which changes the rows it matches (none when the id is in no row)
UsUpdate(q) ==
    LET r == req[q] IN
    /\ r.pc = "us_update"
    /\ rewardRedemptions' =
          {IF x.id = r.redemptionId
           THEN UpdatedRedemption(x, r.newStatus, r.hasNotes)
           ELSE x : x \in rewardRedemptions}
    /\ req' = [req EXCEPT ![q].pc = "us_logAdmin"]
    /\ UNCHANGED <<users, transactions, promotions, promotionRedemptions,
                   rewards, adminActions, now>>

\* the 'update_reward_redemption' audit row (no target user)
StatusAuditRow(q, r) ==
    [id |-> q, adminId |-> r.principal, targetUserId |-> NoUser,
     action |-> "update_reward_redemption", coins |-> 0, amount |-> 0,
     points |-> 0]

\* await storage.logAdminAction({... 'update_reward_redemption' ...}); res.json
UsLogAdmin(q) ==
    LET r == req[q] IN
    /\ r.pc = "us_logAdmin"
    /\ adminActions' = adminActions \cup {StatusAuditRow(q, r)}
    /\ req' = [req EXCEPT ![q] =
          Reply(r, 200, "Redemption status updated successfully")]
    /\ UNCHANGED <<users, transactions, promotions, promotionRedemptions,
                   rewards, rewardRedemptions, now>>

-----------------------------------------------------------------------------
(* The admin routes that edit the rewards and promotions tables *)

\* gen_random_uuid(): the id of the row that request q inserts
NewIds == <<"n1", "n2", "n3", "n4">>

NewId(q) == NewIds[q]

\* requireAdmin in front of an admin route whose first store call is at pc
AdminStart(q, op, principals, ids, patches, pc) ==
    /\ CanStart(q)
    /\ \E pr \in principals, i \in ids, pt \in patches :
          LET r0 == [Idle EXCEPT !.op = op, !.principal = pr,
                                 !.itemId = i, !.patch = pt]
          IN req' = [req EXCEPT ![q] =
                IF ~IsAdmin(pr)
                THEN Reply(r0, 403, "Admin access required")
                ELSE [r0 EXCEPT !.pc = pc]]
    /\ UNCHANGED <<store, now>>

\* a body the insert schema accepts
NoPatch == [f |-> "none", v |-> 0]

\* POST /api/admin/rewards
RewardCreateStart(q, principals) ==
    AdminStart(q, "rewardCreate", principals, {NewId(q)}, {NoPatch}, "rc_create")

\* PUT /api/admin/rewards/:id
RewardUpdateStart(q, principals, ids, patches) ==
    AdminStart(q, "rewardUpdate", principals, ids, patches, "ru_update")

\* DELETE /api/admin/rewards/:id
RewardDeleteStart(q, principals, ids) ==
    AdminStart(q, "rewardDelete", principals, ids, {NoPatch}, "rd_get")

\* POST /api/admin/promotions
PromoCreateStart(q, principals) ==
    AdminStart(q, "promoCreate", principals, {NewId(q)}, {NoPatch}, "pc_create")

\* PUT /api/admin/promotions/:id
PromoUpdateStart(q, principals, ids, patches) ==
    AdminStart(q, "promoUpdate", principals, ids, patches, "pu_update")

\* DELETE /api/admin/promotions/:id
PromoDeleteStart(q, principals, ids) ==
    AdminStart(q, "promoDelete", principals, ids, {NoPatch}, "pd_delete")

\* function f with the pair k :> v added or replaced
With(f, k, v) == [x \in DOMAIN f \cup {k} |-> IF x = k THEN v ELSE f[x]]

\* function f without the key k
Without(f, k) == [x \in DOMAIN f \ {k} |-> f[x]]

\* DbStorage.createReward: the row inserted
RcCreate(q) ==
    LET r == req[q] IN
    /\ r.pc = "rc_create"
    /\ rewards' = With(rewards, r.itemId,
                       [pointsRequired |-> 1, stock |-> 1, isActive |-> TRUE])
    /\ req' = [req EXCEPT ![q].pc = "cat_logAdmin"]
    /\ UNCHANGED <<users, transactions, promotions, promotionRedemptions,
                   rewardRedemptions, adminActions, now>>

\* .set({...updates}): the columns the body names are overwritten
PatchedReward(row, patch) ==
    CASE patch.f = "pointsRequired" -> [row EXCEPT !.pointsRequired = patch.v]
      [] patch.f = "stock" -> [row EXCEPT !.stock = patch.v]
      [] patch.f = "isActive" -> [row EXCEPT !.isActive = (patch.v # 0)]
      [] OTHER -> row

\* DbStorage.updateReward; when the id matches no row the UPDATE returns
\* nothing and the route's reward.title throws, which its catch answers 400
RuUpdate(q) ==
    LET r == req[q] IN
    /\ r.pc = "ru_update"
    /\ IF r.itemId \in DOMAIN rewards
       THEN /\ rewards' = [rewards EXCEPT ![r.itemId] = PatchedReward(@, r.patch)]
            /\ req' = [req EXCEPT ![q].pc = "cat_logAdmin"]
       ELSE /\ rewards' = rewards
            /\ req' = [req EXCEPT ![q] = Reply(r, 400, "TypeError")]
    /\ UNCHANGED <<users, transactions, promotions, promotionRedemptions,
                   rewardRedemptions, adminActions, now>>

\* const reward = await storage.getRewardById(id): 404 when absent
RdGet(q) ==
    LET r == req[q] IN
    /\ r.pc = "rd_get"
    /\ req' = [req EXCEPT ![q] =
          IF r.itemId \notin DOMAIN rewards
          THEN Reply(r, 404, "Reward not found")
          ELSE [r EXCEPT !.pc = "rd_delete"]]
    /\ UNCHANGED <<store, now>>

\* DbStorage.deleteReward: the DELETE is refused by the foreign key of
\* reward_redemptions.reward_id while a redemption references the reward
RdDelete(q) ==
    LET r == req[q] IN
    /\ r.pc = "rd_delete"
    /\ IF \E x \in rewardRedemptions : x.rewardId = r.itemId
       THEN /\ rewards' = rewards
            /\ req' = [req EXCEPT ![q] = Reply(r, 500, "foreign key violation")]
       ELSE /\ rewards' = Without(rewards, r.itemId)
            /\ req' = [req EXCEPT ![q].pc = "cat_logAdmin"]
    /\ UNCHANGED <<users, transactions, promotions, promotionRedemptions,
                   rewardRedemptions, adminActions, now>>

\* DbStorage.createPromotion: the row inserted (currentRedemptions defaults
\* to 0)
PcCreate(q) ==
    LET r == req[q] IN
    /\ r.pc = "pc_create"
    /\ promotions' = With(promotions, r.itemId,
          [type |-> "bonus_points", value |-> 1, isActive |-> TRUE,
           startDate |-> 0, endDate |-> 2,
           hasMax |-> FALSE, maxRedemptions |-> 0, currentRedemptions |-> 0])
    /\ req' = [req EXCEPT ![q].pc = "cat_logAdmin"]
    /\ UNCHANGED <<users, transactions, promotionRedemptions, rewards,
                   rewardRedemptions, adminActions, now>>

\* .set(updates): the columns the body names are overwritten
PatchedPromotion(row, patch) ==
    CASE patch.f = "value" -> [row EXCEPT !.value = patch.v]
      [] patch.f = "isActive" -> [row EXCEPT !.isActive = (patch.v # 0)]
      [] patch.f = "currentRedemptions" ->
            [row EXCEPT !.currentRedemptions = patch.v]
      [] OTHER -> row

\* DbStorage.updatePromotion; when the id matches no row the UPDATE returns
\* nothing and the route's promotion.title throws, which its catch answers 400
PuUpdate(q) ==
    LET r == req[q] IN
    /\ r.pc = "pu_update"
    /\ IF r.itemId \in DOMAIN promotions
       THEN /\ promotions' =
                  [promotions EXCEPT ![r.itemId] = PatchedPromotion(@, r.patch)]
            /\ req' = [req EXCEPT ![q].pc = "cat_logAdmin"]
       ELSE /\ promotions' = promotions
            /\ req' = [req EXCEPT ![q] = Reply(r, 400, "TypeError")]
    /\ UNCHANGED <<users, transactions, promotionRedemptions, rewards,
                   rewardRedemptions, adminActions, now>>

\* DbStorage.deletePromotion: the DELETE is refused by the foreign key of
\* promotion_redemptions.promotion_id while a redemption references the
\* promotion; it matches nothing, and succeeds, when the id is in no row
PdDelete(q) ==
    LET r == req[q] IN
    /\ r.pc = "pd_delete"
    /\ IF \E x \in promotionRedemptions : x.promotionId = r.itemId
       THEN /\ promotions' = promotions
            /\ req' = [req EXCEPT ![q] = Reply(r, 500, "foreign key violation")]
       ELSE /\ promotions' = Without(promotions, r.itemId)
            /\ req' = [req EXCEPT ![q].pc = "cat_logAdmin"]
    /\ UNCHANGED <<users, transactions, promotionRedemptions, rewards,
                   rewardRedemptions, adminActions, now>>

\* the action tag of the audit row of each editing route
EditAction(op) ==
    CASE op = "rewardCreate" -> "create_reward"
      [] op = "rewardUpdate" -> "update_reward"
      [] op = "rewardDelete" -> "delete_reward"
      [] op = "promoCreate" -> "create_promotion"
      [] op = "promoUpdate" -> "update_promotion"
      [] OTHER -> "delete_promotion"

\* the audit row of an editing route (no target user)
EditAuditRow(q, r) ==
    [id |-> q, adminId |-> r.principal, targetUserId |-> NoUser,
     action |-> EditAction(r.op), coins |-> 0, amount |-> 0, points |-> 0]

\* await storage.logAdminAction({...}); res.json(...)
CatLogAdmin(q) ==
    LET r == req[q] IN
    /\ r.pc = "cat_logAdmin"
    /\ adminActions' = adminActions \cup {EditAuditRow(q, r)}
    /\ req' = [req EXCEPT ![q] = Reply(r, 200, "")]
    /\ UNCHANGED <<users, transactions, promotions, promotionRedemptions,
                   rewards, rewardRedemptions, now>>

-----------------------------------------------------------------------------
(* GET /api/admin/analytics *)

\* requireAdmin; the store calls (getSalesAnalytics with getUserAnalytics,
\* both read-only) are the next step
AnalyticsStart(q, principals) ==
    AdminStart(q, "analytics", principals, {"none"}, {NoPatch}, "an_get")

\* (variant) the rows are not filtered by type
AllTransactionRows == transactions

\* db.select().from(transactions).where(eq(transactions.type, "purchase"))
PurchaseTransactions == {t \in transactions : t.type = "purchase"}

\* reduce((sum, t) => sum + parseFloat(t.amount || '0'), 0), in hundredths
RECURSIVE TotalRevenue(_)
TotalRevenue(rows) ==
    IF rows = {} THEN 0
    ELSE LET t == CHOOSE y \in rows : TRUE
         IN (IF t.hasAmount THEN t.amount ELSE 0) + TotalRevenue(rows \ {t})

\* totalTransactions > 0 ? totalRevenue / totalTransactions : 0, as a
\* fraction
AverageTransaction(totalRevenue, totalTransactions) ==
    IF totalTransactions > 0
    THEN [num |-> totalRevenue, den |-> totalTransactions]
    ELSE [num |-> 0, den |-> 1]

\* DbStorage.getSalesAnalytics: one SELECT, then the three figures
AnGet(q) ==
    LET r == req[q]
        rows == PurchaseTransactions
        totalRevenue == TotalRevenue(rows)
        totalTransactions == Cardinality(rows)
    IN
    /\ r.pc = "an_get"
    /\ req' = [req EXCEPT ![q] =
          [Reply(r, 200, "") EXCEPT
              !.outRevenue = totalRevenue,
              !.outCount = totalTransactions,
              !.outAverage = AverageTransaction(totalRevenue, totalTransactions)]]
    /\ UNCHANGED <<store, now>>

-----------------------------------------------------------------------------
(* Store failures *)

\* the steps that are one awaited store call outside redeemReward's writes
StoreCallPcs ==
    {"ub_read", "ub_write", "tu_createTx", "tu_logAdmin",
     "pr_getActive", "pr_getRedeemed", "pr_txSelect", "pr_txCommit", "pr_createTx",
     "rw_getReward", "cl_getUser", "rr_selReward", "rr_selUser", "cl_logAdmin",
     "us_update", "us_logAdmin",
     "rc_create", "ru_update", "rd_get", "rd_delete",
     "pc_create", "pu_update", "pd_delete", "cat_logAdmin", "an_get"}

\* the status of the handler's catch block: the topup, promotion redeem,
\* redemption-status, delete and analytics routes answer 500, the others 400
CatchStatus(op) ==
    IF op \in {"topup", "promo", "status", "rewardDelete", "promoDelete",
               "analytics"}
    THEN 500 ELSE 400

\* The awaited store call rejects (the store is unreachable, the statement
\* or the COMMIT fails): nothing of that call is written, an open
\* transaction is rolled back, and the handler's catch block answers.
StoreFail(q) ==
    LET r == req[q] IN
    /\ r.pc \in StoreCallPcs
    /\ req' = [req EXCEPT ![q] = Reply(r, CatchStatus(r.op), "store failure")]
    /\ UNCHANGED <<store, now>>

-----------------------------------------------------------------------------
(* Specifications *)

\* the whole system: concurrent requests of the four mutating operations
Next ==
    \E q \in Reqs :
        \/ TopUpStart(q, {"adm"}, {"u1", "u2"}, {Num(100)}, {Num(5000)})
        \/ PromoStart(q, {"u1", "u2"}, {"p1"})
        \/ RewardStart(q, {"u1", "u2"}, {"r1"})
        \/ ClaimStart(q, {"adm"}, {"u1", "u2"}, {"r1"})
        \/ UbRead(q) \/ UbWrite(q) \/ TuCreateTx(q) \/ TuLogAdmin(q)
        \/ PrGetActive(q) \/ PrGetRedeemed(q) \/ PrTxSelect(q) \/ PrTxCommit(q)
        \/ PrCreateTx(q)
        \/ RwGetReward(q) \/ ClGetUser(q) \/ RrSelReward(q) \/ RrSelUser(q)
        \/ RrCommit(q) \/ RrWriteFail(q) \/ ClLogAdmin(q)
        \/ StoreFail(q)

Spec == Init /\ [][Next]_vars

\* the request bodies of the topup specification
TopUpCoinInputs ==
    {Missing, Empty, Text, Num(-100), Num(0), Num(50), Num(100), Num(250)}

TopUpAmountInputs ==
    {Missing, Empty, Text, Num(-25000), Num(-5000), Num(0), Num(4900),
     Num(10000), Num(14999), Num(15000)}

\* one topup request, over every principal, target and request body
NextTopUp ==
    \/ TopUpStart(1, {"adm", "u1", Anon}, {"u1", NoUser},
                  TopUpCoinInputs, TopUpAmountInputs)
    \/ \E q \in Reqs :
        \/ UbRead(q) \/ UbWrite(q) \/ TuCreateTx(q) \/ TuLogAdmin(q)
        \/ StoreFail(q)

SpecTopUp == Init /\ [][NextTopUp]_vars

\* concurrent promotion redemptions
NextPromo ==
    \E q \in Reqs :
        \/ PromoStart(q, {"u1", "u2"}, PromoIds)
        \/ PrGetActive(q) \/ PrGetRedeemed(q) \/ PrTxSelect(q) \/ PrTxCommit(q)
        \/ UbRead(q) \/ UbWrite(q) \/ PrCreateTx(q)
        \/ StoreFail(q)

SpecPromo == Init /\ [][NextPromo]_vars

\* concurrent reward redemptions and admin claims
NextReward ==
    \E q \in Reqs :
        \/ RewardStart(q, {"u1", "u2"}, RewardIds)
        \/ ClaimStart(q, {"adm"}, {"u1", "u2"}, RewardIds)
        \/ RwGetReward(q) \/ ClGetUser(q) \/ RrSelReward(q) \/ RrSelUser(q)
        \/ RrCommit(q) \/ RrWriteFail(q) \/ ClLogAdmin(q)
        \/ StoreFail(q)

SpecReward == Init /\ [][NextReward]_vars

\* the sequential run starts from the run's store, with RunLen request slots
InitRun ==
    /\ users = RunUsers
    /\ transactions = {}
    /\ promotions = RunPromotions
    /\ promotionRedemptions = {}
    /\ rewards = RunRewards
    /\ rewardRedemptions = {}
    /\ adminActions = {}
    /\ now = 1
    /\ req = [q \in RunReqs |-> Idle]

\* no request is in progress: the caller waits for each response before
\* sending the next request
NoneInProgress == \A o \in DOMAIN req : req[o].pc \in {"idle", "done"}

\* requests made one after the other: topups of 500 coins for 100.00,
\* promotion redemptions and reward redemptions, in any order
NextRun ==
    \E q \in RunReqs :
        \/ NoneInProgress
           /\ TopUpStart(q, {"adm"}, {"u1"}, {Num(50000)}, {Num(10000)})
        \/ NoneInProgress /\ PromoStart(q, {"u1"}, {"p1"})
        \/ NoneInProgress /\ RewardStart(q, {"u1"}, {"r1"})
        \/ UbRead(q) \/ UbWrite(q) \/ TuCreateTx(q) \/ TuLogAdmin(q)
        \/ PrGetActive(q) \/ PrGetRedeemed(q) \/ PrTxSelect(q) \/ PrTxCommit(q)
        \/ PrCreateTx(q)
        \/ RwGetReward(q) \/ RrSelReward(q) \/ RrSelUser(q)
        \/ RrCommit(q) \/ RrWriteFail(q)
        \/ StoreFail(q)

SpecRun == InitRun /\ [][NextRun]_vars

\* new Date() returns a later instant
Tick ==
    /\ now < MaxNow
    /\ now' = now + 1
    /\ UNCHANGED <<store, req>>

\* the promotion catalog: the initial store with the catalog's promotions
InitCatalog ==
    /\ users = InitUsers
    /\ transactions = {}
    /\ promotions = CatalogPromotions
    /\ promotionRedemptions = {}
    /\ rewards = InitRewards
    /\ rewardRedemptions = {}
    /\ adminActions = {}
    /\ now = 1
    /\ req = [q \in Reqs |-> Idle]

\* promotion redemptions over the catalog, one request after the other,
\* while the clock advances
NextCatalog ==
    \/ Tick
    \/ \E q \in Reqs :
        \/ NoneInProgress
           /\ PromoStart(q, {"u1", Anon}, CatalogPromoIds \cup {NoPromo})
        \/ PrGetActive(q) \/ PrGetRedeemed(q) \/ PrTxSelect(q) \/ PrTxCommit(q)
        \/ UbRead(q) \/ UbWrite(q) \/ PrCreateTx(q)
        \/ StoreFail(q)

SpecCatalog == InitCatalog /\ [][NextCatalog]_vars

\* the redemption statuses an admin sends
StatusInputs == {"pending", "completed", "cancelled"}

\* reward redemptions, admin claims and redemption status updates, and a
\* topup for a user id that is in no row
NextStatus ==
    \E q \in Reqs :
        \/ RewardStart(q, {"u1"}, {"r1"})
        \/ ClaimStart(q, {"adm"}, {"u1"}, {"r1"})
        \/ StatusStart(q, {"adm", "u1"}, Reqs \cup {NoRedemption},
                       StatusInputs, BOOLEAN)
        \/ TopUpStart(q, {"adm"}, {NoUser}, {Num(100)}, {Num(5000)})
        \/ RwGetReward(q) \/ ClGetUser(q) \/ RrSelReward(q) \/ RrSelUser(q)
        \/ RrCommit(q) \/ RrWriteFail(q) \/ ClLogAdmin(q)
        \/ UsUpdate(q) \/ UsLogAdmin(q)
        \/ UbRead(q)
        \/ StoreFail(q)

SpecStatus == Init /\ [][NextStatus]_vars

\* the principals of the authorization specification
Principals == {Anon, "u1", "adm"}

\* every mutating route, requested by every kind of principal, one request
\* after the other
NextAuth ==
    \E q \in Reqs :
        \/ NoneInProgress
           /\ \/ TopUpStart(q, Principals, {"u1"}, {Num(100)}, {Num(5000)})
              \/ ClaimStart(q, Principals, {"u1"}, {"r1"})
              \/ StatusStart(q, Principals, {1}, {"cancelled"}, {FALSE})
              \/ RewardCreateStart(q, Principals)
              \/ RewardUpdateStart(q, Principals, {"r1"},
                                   {[f |-> "stock", v |-> 0]})
              \/ RewardDeleteStart(q, Principals, {"r2"})
              \/ PromoCreateStart(q, Principals)
              \/ PromoUpdateStart(q, Principals, {"p1"},
                                  {[f |-> "isActive", v |-> 0]})
              \/ PromoDeleteStart(q, Principals, {"p2"})
              \/ PromoStart(q, {Anon, "u1"}, {"p1"})
              \/ RewardStart(q, {Anon, "u1"}, {"r1"})
        \/ UbRead(q) \/ UbWrite(q) \/ TuCreateTx(q) \/ TuLogAdmin(q)
        \/ PrGetActive(q) \/ PrGetRedeemed(q) \/ PrTxSelect(q) \/ PrTxCommit(q)
        \/ PrCreateTx(q)
        \/ RwGetReward(q) \/ ClGetUser(q) \/ RrSelReward(q) \/ RrSelUser(q)
        \/ RrCommit(q) \/ RrWriteFail(q) \/ ClLogAdmin(q)
        \/ UsUpdate(q) \/ UsLogAdmin(q)
        \/ RcCreate(q) \/ RuUpdate(q) \/ RdGet(q) \/ RdDelete(q)
        \/ PcCreate(q) \/ PuUpdate(q) \/ PdDelete(q) \/ CatLogAdmin(q)
        \/ StoreFail(q)

SpecAuth == Init /\ [][NextAuth]_vars

\* topups (with and without a cash amount), promotion redemptions and
\* analytics requests, one request after the other
NextAnalytics ==
    \E q \in RunReqs :
        \/ NoneInProgress
           /\ \/ TopUpStart(q, {"adm"}, {"u1"}, {Num(100)},
                            {Missing, Num(-5000), Num(4900), Num(10000)})
              \/ PromoStart(q, {"u1"}, {"p1"})
              \/ AnalyticsStart(q, {"adm"})
        \/ UbRead(q) \/ UbWrite(q) \/ TuCreateTx(q) \/ TuLogAdmin(q)
        \/ PrGetActive(q) \/ PrGetRedeemed(q) \/ PrTxSelect(q) \/ PrTxCommit(q)
        \/ PrCreateTx(q)
        \/ AnGet(q)
        \/ StoreFail(q)

SpecAnalytics == InitRun /\ [][NextAnalytics]_vars

\* reward redemptions and admin claims of r1 while an admin changes r1's
\* pointsRequired
NextEdit ==
    \E q \in Reqs :
        \/ RewardStart(q, {"u1"}, {"r1"})
        \/ ClaimStart(q, {"adm"}, {"u1"}, {"r1"})
        \/ RewardUpdateStart(q, {"adm"}, {"r1"},
                             {[f |-> "pointsRequired", v |-> 4]})
        \/ RwGetReward(q) \/ ClGetUser(q) \/ RrSelReward(q) \/ RrSelUser(q)
        \/ RrCommit(q) \/ RrWriteFail(q) \/ ClLogAdmin(q)
        \/ RuUpdate(q) \/ CatLogAdmin(q)
        \/ StoreFail(q)

SpecEdit == Init /\ [][NextEdit]_vars

-----------------------------------------------------------------------------
(* Sums over table rows *)

RECURSIVE SumCoinsAdded(_)
SumCoinsAdded(rows) ==
    IF rows = {} THEN 0
    ELSE LET x == CHOOSE y \in rows : TRUE
         IN x.coinsAdded + SumCoinsAdded(rows \ {x})

RECURSIVE SumPointsEarned(_)
SumPointsEarned(rows) ==
    IF rows = {} THEN 0
    ELSE LET x == CHOOSE y \in rows : TRUE
         IN x.pointsEarned + SumPointsEarned(rows \ {x})

RECURSIVE SumPointsSpent(_)
SumPointsSpent(rows) ==
    IF rows = {} THEN 0
    ELSE LET x == CHOOSE y \in rows : TRUE
         IN x.pointsSpent + SumPointsSpent(rows \ {x})

LedgerOf(u) == {t \in transactions : t.userId = u}

Started == {q \in Reqs : req[q].op # "idle"}

OthersIdle(q) == \A o \in Reqs \ {q} : req[o].op = "idle"

-----------------------------------------------------------------------------
(* Claims *)

\* C1: in every reachable state each user's coinBalance is its initial value
\* plus the sum of coinsAdded over the user's Transaction rows, and the
\* pointBalance its initial value plus the sum of pointsEarned.
C1_BalancesMatchLedger ==
    \A u \in UserIds :
        /\ users[u].coinBalance =
              InitUsers[u].coinBalance + SumCoinsAdded(LedgerOf(u))
        /\ users[u].pointBalance =
              InitUsers[u].pointBalance + SumPointsEarned(LedgerOf(u))

\* C2: for every user and promotion at most one PromotionRedemption row
\* exists, also when two redeemPromotion requests run concurrently.
C2_AtMostOneRedemption ==
    \A x \in promotionRedemptions, y \in promotionRedemptions :
        (x.userId = y.userId /\ x.promotionId = y.promotionId) => x = y

\* C3: two redeemReward requests, by two users who both hold enough points,
\* for the reward whose stock is 1: once both have answered (the store never
\* failing), exactly one has succeeded and created a row, the other was
\* refused, and the stock is 0.
C3_LastUnitOnce ==
    LET a == req[1]
        b == req[2]
        rowsR1 == {x \in rewardRedemptions : x.rewardId = "r1"}
    IN
    ( /\ \A q \in Reqs \ {1, 2} : req[q].op = "idle"
      /\ a.op = "reward" /\ b.op = "reward"
      /\ a.itemId = "r1" /\ b.itemId = "r1"
      /\ a.userId # b.userId
      /\ a.pc = "done" /\ b.pc = "done"
      /\ a.msg \notin {"store failure", "transaction rolled back"}
      /\ b.msg \notin {"store failure", "transaction rolled back"} )
    =>
    ( /\ (a.status = 200) # (b.status = 200)
      /\ Cardinality(rowsR1) = 1
      /\ rewards["r1"].stock = 0 )

\* C4: redeemReward is all-or-nothing.  A request has a RewardRedemption row
\* exactly when it has its 'reward_redemption' ledger row; the step that
\* ends the write phase of the transaction either makes all four writes
\* (row inserted, the user's pointBalance set to the balance the transaction
\* read minus pointsSpent, stock set to the stock it read minus 1, ledger
\* row inserted) or, after a failure at any statement, none of them; and
\* stock, redemption rows and ledger rows change in no other step.
HasRedemption(q) == \E x \in rewardRedemptions : x.id = q

HasRewardLedger(q) ==
    \E t \in transactions : t.id = q /\ t.type = "reward_redemption"

LeavesWritePhase(q) == req[q].pc = "rr_write" /\ req'[q].pc # "rr_write"

AllFourWrites(q) ==
    LET r == req[q] IN
    /\ \E x \in rewardRedemptions' :
          /\ x.id = q /\ x.userId = r.userId /\ x.rewardId = r.itemId
          /\ x.pointsSpent = r.pointsSpent
          /\ rewardRedemptions' = rewardRedemptions \cup {x}
          /\ x \notin rewardRedemptions
    /\ \E t \in transactions' :
          /\ t.id = q /\ t.userId = r.userId /\ t.type = "reward_redemption"
          /\ t.pointsEarned = -r.pointsSpent /\ t.coinsAdded = 0
          /\ transactions' = transactions \cup {t}
          /\ t \notin transactions
    /\ users' = [users EXCEPT ![r.userId].pointBalance = r.rdPoint - r.pointsSpent]
    /\ rewards' = [rewards EXCEPT ![r.itemId].stock = r.rdStock - 1]
    /\ req'[q].status # 400

NoWrite(q) ==
    /\ UNCHANGED <<users, rewards, rewardRedemptions, transactions>>
    /\ req'[q].pc = "done" /\ req'[q].status = 400

C4_RedeemRewardAtomic ==
    /\ [](\A q \in Reqs : HasRedemption(q) <=> HasRewardLedger(q))
    /\ [][\A q \in Reqs :
            LeavesWritePhase(q) => (AllFourWrites(q) \/ NoWrite(q))]_vars
    /\ [][(\/ rewards' # rewards
           \/ rewardRedemptions' # rewardRedemptions
           \/ \E q \in Reqs : HasRewardLedger(q)' # HasRewardLedger(q))
          => \E q \in Reqs : LeavesWritePhase(q) /\ AllFourWrites(q)]_vars

\* C4 witness: one redemption has committed (row, ledger row, stock taken)
\* and another request's transaction failed in its write phase and was
\* rolled back.
C4_Witness ==
    \E a \in Reqs, b \in Reqs :
        /\ req[a].op = "reward" /\ req[a].status = 200
        /\ HasRedemption(a) /\ HasRewardLedger(a)
        /\ rewards[req[a].itemId].stock < InitRewards[req[a].itemId].stock
        /\ req[b].op \in {"reward", "claim"}
        /\ req[b].msg = "transaction rolled back"
        /\ ~HasRedemption(b)

\* C5: when the transaction's user check finds pointBalance < pointsSpent
\* (the reward's pointsRequired as the request read it), redeemReward fails
\* with 'Insufficient points' and the step changes nothing in the store;
\* such a request never has a RewardRedemption or Transaction row.
C5_InsufficientPointsRefused ==
    /\ [][\A q \in Reqs :
            ( /\ req[q].pc = "rr_selUser"
              /\ req'[q].pc # "rr_selUser"
              /\ req'[q].msg # "store failure"
              /\ users[req[q].userId].pointBalance < req[q].pointsSpent )
            =>
            ( /\ req'[q].pc = "done"
              /\ req'[q].status = 400
              /\ req'[q].msg = "Insufficient points"
              /\ UNCHANGED store )]_vars
    /\ [](\A q \in Reqs :
            req[q].msg = "Insufficient points"
            => /\ ~HasRedemption(q)
               /\ ~\E t \in transactions : t.id = q)

\* C5 witness: a self-service redemption of a reward that costs more points
\* than the user holds was refused with 'Insufficient points'.
C5_Witness ==
    \E q \in Reqs :
        /\ req[q].op = "reward" /\ req[q].pc = "done"
        /\ req[q].msg = "Insufficient points"
        /\ users[req[q].userId].pointBalance < rewards[req[q].itemId].pointsRequired
        /\ users = InitUsers /\ rewards = InitRewards
        /\ rewardRedemptions = {} /\ transactions = {}

\* what a request that answered 200 added to user u's balances
ReqCoinDelta(q, u) ==
    IF req[q].userId = u /\ req[q].op \in {"topup", "promo"}
    THEN req[q].coinDelta ELSE 0

ReqPointDelta(q, u) ==
    IF req[q].userId # u THEN 0
    ELSE IF req[q].op \in {"topup", "promo"} THEN req[q].pointDelta
    ELSE IF req[q].op \in {"reward", "claim"} THEN -req[q].pointsSpent
    ELSE 0

RECURSIVE SumCoinDeltas(_, _)
SumCoinDeltas(S, u) ==
    IF S = {} THEN 0
    ELSE LET q == CHOOSE x \in S : TRUE
         IN ReqCoinDelta(q, u) + SumCoinDeltas(S \ {q}, u)

RECURSIVE SumPointDeltas(_, _)
SumPointDeltas(S, u) ==
    IF S = {} THEN 0
    ELSE LET q == CHOOSE x \in S : TRUE
         IN ReqPointDelta(q, u) + SumPointDeltas(S \ {q}, u)

\* C6: no balance update is lost.  Once every request that was made has
\* completed successfully, each user's coinBalance and pointBalance equal
\* the starting values plus the sum of the deltas of all those operations,
\* for every interleaving of their reads and writes.
C6_NoLostUpdate ==
    (\A q \in Started : req[q].pc = "done" /\ req[q].status = 200)
    =>
    \A u \in UserIds :
        /\ users[u].coinBalance =
              InitUsers[u].coinBalance + SumCoinDeltas(Started, u)
        /\ users[u].pointBalance =
              InitUsers[u].pointBalance + SumPointDeltas(Started, u)

\* C7: the sum of pointsSpent over a user's committed RewardRedemption rows
\* never exceeds the points the user held initially plus the points the
\* user earned (the positive pointsEarned of the user's ledger rows).
C7_NoOverspend ==
    \A u \in UserIds :
        SumPointsSpent({x \in rewardRedemptions : x.userId = u})
        <= InitUsers[u].pointBalance
           + SumPointsEarned({t \in LedgerOf(u) : t.pointsEarned > 0})

\* C8: a redeemPromotion request that failed left nothing behind: no
\* PromotionRedemption row and no 'promotion' Transaction row of that
\* request, and (no other request having been made) the promotions' counters
\* and the users' balances are those of the initial store.
C8_FailedPromoLeavesNothing ==
    \A q \in Reqs :
        (req[q].op = "promo" /\ req[q].pc = "done" /\ req[q].status # 200)
        =>
        /\ ~\E x \in promotionRedemptions : x.id = q
        /\ ~\E t \in transactions : t.id = q
        /\ OthersIdle(q) => (promotions = InitPromotions /\ users = InitUsers)

\* the cash amount of a request body, in hundredths: 0 when the field is
\* missing, empty or no number
AmountPaid(r) == IF r.amount.k = "num" THEN r.amount.v ELSE 0

\* p = floor(a / 50) for a in hundredths: 50.00 * p <= a < 50.00 * (p + 1)
IsFloorOfFiftieth(p, a) == 50 * 100 * p <= a /\ a < 50 * 100 * (p + 1)

TopUpAccepted(q) ==
    /\ req[q].op = "topup"
    /\ req[q].pc \in {"ub_read", "ub_write", "tu_createTx", "tu_logAdmin", "done"}
    /\ req[q].status \notin {400, 403}

\* C9: for every accepted topUp the points granted are floor(amountPaid/50)
\* (150 gives 3, 49 gives 0, 100 gives 2), and that value is the pointDelta
\* applied to the user's balance, the pointsEarned of the Transaction row
\* and the computedPoints returned.
C9_PointsAreFloorOfAmountOver50 ==
    \A q \in Reqs :
        TopUpAccepted(q) =>
        LET r == req[q]
            u == r.userId
        IN
        /\ IsFloorOfFiftieth(r.pointDelta, AmountPaid(r))
        /\ r.amount = Num(15000) => r.pointDelta = 3
        /\ r.amount = Num(4900) => r.pointDelta = 0
        /\ r.amount = Num(10000) => r.pointDelta = 2
        /\ \A t \in transactions :
              t.id = q => IsFloorOfFiftieth(t.pointsEarned, AmountPaid(r))
        /\ r.status = 200 => IsFloorOfFiftieth(r.outPoints, AmountPaid(r))
        /\ (OthersIdle(q) /\ u \in UserIds) =>
              LET d == users[u].pointBalance - InitUsers[u].pointBalance IN
              IF r.pc \in {"tu_createTx", "tu_logAdmin"} \/ r.status = 200
              THEN IsFloorOfFiftieth(d, AmountPaid(r))
              ELSE d = 0 \/ IsFloorOfFiftieth(d, AmountPaid(r))

\* C9 witness: a topUp of 150.00 was answered 200 with computedPoints 3, its
\* ledger row has pointsEarned 3 and the user's pointBalance rose by 3.
C9_Witness ==
    \E q \in Reqs :
        /\ req[q].op = "topup" /\ req[q].status = 200
        /\ req[q].amount = Num(15000)
        /\ req[q].outPoints = 3
        /\ \E t \in transactions : t.id = q /\ t.pointsEarned = 3
        /\ users[req[q].userId].pointBalance = InitUsers[req[q].userId].pointBalance + 3

\* a body field that holds no positive value
NotPositive(x) == x.k # "num" \/ x.v <= 0

\* C10: a topUp by an admin in which neither coins nor amountPaid is
\* positive (missing, empty and non-numeric values included) is answered
\* 400 'Must specify amount and/or coins to add', never reaches the store,
\* and leaves no Transaction or AdminAction row and no balance changed.
C10_NothingPositiveRejected ==
    \A q \in Reqs :
        ( /\ req[q].op = "topup"
          /\ IsAdmin(req[q].principal)
          /\ NotPositive(req[q].coins)
          /\ NotPositive(req[q].amount) )
        =>
        /\ req[q].pc = "done"
        /\ req[q].status = 400
        /\ req[q].msg = "Must specify amount and/or coins to add"
        /\ ~\E t \in transactions : t.id = q
        /\ ~\E a \in adminActions : a.id = q
        /\ OthersIdle(q) =>
              (users = InitUsers /\ transactions = {} /\ adminActions = {})

\* C10 witness: an admin's topUp with non-numeric coins and no amount was
\* rejected with the validation message.
C10_Witness ==
    \E q \in Reqs :
        /\ req[q].op = "topup" /\ IsAdmin(req[q].principal)
        /\ req[q].coins = Text /\ req[q].amount = Missing
        /\ req[q].status = 400
        /\ req[q].msg = "Must specify amount and/or coins to add"
        /\ users = InitUsers /\ transactions = {}

\* C11: updateUserBalance(userId, coinDelta, pointDelta) on an existing user
\* sets coinBalance to old + coinDelta and pointBalance to old + pointDelta,
\* unclamped (negative deltas and results included), returns the row as
\* written and changes no other user or table; on a userId with no row it
\* fails with 'User not found' and changes nothing.
C11_AdjustBalance ==
    /\ [][\A q \in Reqs :
            ( /\ req[q].pc = "ub_write"
              /\ req'[q].pc # "ub_write"
              /\ req'[q].msg # "store failure" )
            =>
            LET r == req[q]
                u == r.userId
            IN
            /\ users' = [users EXCEPT
                  ![u].coinBalance = users[u].coinBalance + r.coinDelta,
                  ![u].pointBalance = users[u].pointBalance + r.pointDelta]
            /\ req'[q].outCoinBal = users'[u].coinBalance
            /\ req'[q].outPointBal = users'[u].pointBalance
            /\ UNCHANGED <<transactions, promotions, promotionRedemptions,
                           rewards, rewardRedemptions, adminActions>>]_vars
    /\ [][\A q \in Reqs :
            ( /\ req[q].pc = "ub_read"
              /\ req'[q].pc # "ub_read"
              /\ req'[q].msg # "store failure"
              /\ req[q].userId \notin DOMAIN users )
            =>
            ( /\ req'[q].pc = "done"
              /\ req'[q].status # 200
              /\ req'[q].msg = "User not found"
              /\ UNCHANGED store )]_vars
    /\ [](\A q \in Reqs :
            (req[q].msg = "User not found" /\ OthersIdle(q))
            => (users = InitUsers /\ transactions = {} /\ adminActions = {}))

\* C11 witness: a call with a negative coinDelta has left an existing user
\* with a negative coinBalance (0 - 1), the points raised by the pointDelta,
\* and every other user as before.
C11_Witness ==
    \E q \in Reqs :
        LET r == req[q] IN
        /\ r.op = "topup" /\ r.status = 200 /\ r.userId = "u1"
        /\ r.coinDelta = -1 /\ r.pointDelta = 2
        /\ users["u1"].coinBalance = -1 /\ r.outCoinBal = -1
        /\ users["u1"].pointBalance = InitUsers["u1"].pointBalance + 2
        /\ \A o \in UserIds \ {"u1"} : users[o] = InitUsers[o]

\* request q of the run was operation op and was answered 200
RunDone(q, op) ==
    req[q].op = op /\ req[q].pc = "done" /\ req[q].status = 200

\* no request from the n-th on has been made
RunIdleFrom(n) == \A q \in RunReqs : q >= n => req[q].op = "idle"

\* C12: the sequential run from a new user (0 coins, 0 points).  After
\* topUp(coins 500, amount 100.00): coinBalance 500, pointBalance 2 and one
\* 'purchase' row (coinsAdded 500, pointsEarned 2).  After then redeeming
\* the bonus_points promotion of value 50: pointBalance 52, one
\* PromotionRedemption row for (user, promotion), currentRedemptions raised
\* by 1, one 'promotion' row with pointsEarned 50.  After then redeeming the
\* reward (pointsRequired 50, stock 3): pointBalance 2, stock 2, one pending
\* RewardRedemption with a code, one 'reward_redemption' row with -50.
C12_EndToEndRun ==
    /\ (RunDone(1, "topup") /\ RunIdleFrom(2)) =>
          /\ users["u1"].coinBalance = 500
          /\ users["u1"].pointBalance = 2
          /\ Cardinality(transactions) = 1
          /\ \E t \in transactions :
                /\ t.userId = "u1" /\ t.type = "purchase"
                /\ t.coinsAdded = 500 /\ t.pointsEarned = 2
    /\ (RunDone(1, "topup") /\ RunDone(2, "promo") /\ RunIdleFrom(3)) =>
          /\ users["u1"].coinBalance = 500
          /\ users["u1"].pointBalance = 52
          /\ Cardinality({x \in promotionRedemptions :
                            x.userId = "u1" /\ x.promotionId = "p1"}) = 1
          /\ promotions["p1"].currentRedemptions =
                RunPromotions["p1"].currentRedemptions + 1
          /\ Cardinality(transactions) = 2
          /\ \E t \in transactions :
                /\ t.userId = "u1" /\ t.type = "promotion"
                /\ t.pointsEarned = 50 /\ t.coinsAdded = 0
    /\ ( /\ RunDone(1, "topup") /\ RunDone(2, "promo")
         /\ RunDone(3, "reward") /\ RunIdleFrom(4) ) =>
          /\ users["u1"].coinBalance = 500
          /\ users["u1"].pointBalance = 2
          /\ rewards["r1"].stock = 2
          /\ Cardinality(rewardRedemptions) = 1
          /\ \E x \in rewardRedemptions :
                /\ x.userId = "u1" /\ x.rewardId = "r1" /\ x.pointsSpent = 50
                /\ x.status = "pending" /\ x.codePrefix = "RWD-"
          /\ Cardinality(transactions) = 3
          /\ \E t \in transactions :
                /\ t.userId = "u1" /\ t.type = "reward_redemption"
                /\ t.pointsEarned = -50

\* C12 witness: the three operations of the run were each answered 200, in
\* that order, and nothing else was requested.
C12_Witness ==
    /\ RunDone(1, "topup") /\ RunDone(2, "promo") /\ RunDone(3, "reward")
    /\ RunIdleFrom(4)
    /\ users["u1"].pointBalance = 2
    /\ rewards["r1"].stock = 2

\* C13: promotion capacity is enforced.  For every promotion whose
\* maxRedemptions is set, currentRedemptions never exceeds maxRedemptions and
\* the promotion has at most maxRedemptions PromotionRedemption rows.
C13_CapacityEnforced ==
    \A p \in DOMAIN promotions :
        promotions[p].hasMax =>
            /\ promotions[p].currentRedemptions <= promotions[p].maxRedemptions
            /\ Cardinality({x \in promotionRedemptions : x.promotionId = p})
                  <= promotions[p].maxRedemptions

\* promotion p exists, is switched on and the clock is inside its window
InWindow(p) ==
    /\ p \in DOMAIN promotions
    /\ promotions[p].isActive
    /\ promotions[p].startDate <= now
    /\ now <= promotions[p].endDate

\* C14: redeemPromotion goes on only for a promotion with isActive = true
\* and startDate <= now <= endDate; for a promotion that is missing,
\* inactive, not yet started or ended it fails with 'Promotion not found or
\* expired', and that request creates no PromotionRedemption row, changes no
\* counter or balance and writes no Transaction row.
C14_OnlyInsideWindow ==
    /\ [][\A q \in Reqs :
            ( /\ req[q].pc = "pr_getActive"
              /\ req'[q].pc # "pr_getActive"
              /\ req'[q].msg # "store failure" )
            =>
            IF InWindow(req[q].itemId)
            THEN req'[q].pc = "pr_getRedeemed"
            ELSE /\ req'[q].pc = "done"
                 /\ req'[q].status = 404
                 /\ req'[q].msg = "Promotion not found or expired"
                 /\ UNCHANGED store]_vars
    /\ [](\A q \in Reqs :
            req[q].msg = "Promotion not found or expired" =>
                /\ ~\E x \in promotionRedemptions : x.id = q
                /\ ~\E t \in transactions : t.id = q
                /\ OthersIdle(q) =>
                      (users = InitUsers /\ promotions = CatalogPromotions))
    /\ [](\A q \in Reqs :
            (req[q].op = "promo" /\ req[q].status = 200) =>
                /\ req[q].itemId \in DOMAIN promotions
                /\ promotions[req[q].itemId].isActive
                /\ promotions[req[q].itemId].startDate <= now)

\* C14 witness: a request for a promotion that exists and is switched on
\* but has ended was refused with the message, the store untouched.
C14_Witness ==
    \E q \in Reqs :
        /\ req[q].op = "promo" /\ req[q].itemId = "p1"
        /\ req[q].status = 404
        /\ req[q].msg = "Promotion not found or expired"
        /\ now > promotions["p1"].endDate
        /\ promotionRedemptions = {} /\ transactions = {}
        /\ users = InitUsers /\ promotions = CatalogPromotions

\* the grant the claim states for a promotion type
GrantPoints(type, value) == IF type = "bonus_points" THEN value ELSE 0

GrantCoins(type, value) == IF type = "extra_coins" THEN value ELSE 0

\* C15: the grant of a successful redeemPromotion follows the promotion's
\* type: bonus_points gives (value points, 0 coins), extra_coins gives
\* (0 points, value coins), discount and free_credits give (0, 0) and the
\* redemption is still recorded; the same pair is in the PromotionRedemption
\* row, is added to the user's balance and is in the 'promotion' Transaction
\* row.
C15_GrantByType ==
    /\ [](\A q \in Reqs :
            (req[q].op = "promo" /\ req[q].status = 200) =>
            LET r == req[q]
                pr == CatalogPromotions[r.itemId]
                pe == GrantPoints(pr.type, pr.value)
                ce == GrantCoins(pr.type, pr.value)
            IN
            /\ \E x \in promotionRedemptions :
                  /\ x.id = q /\ x.userId = r.userId /\ x.promotionId = r.itemId
                  /\ x.pointsEarned = pe /\ x.coinsEarned = ce
            /\ \A x \in promotionRedemptions :
                  x.id = q => (x.pointsEarned = pe /\ x.coinsEarned = ce)
            /\ \E t \in transactions :
                  /\ t.id = q /\ t.userId = r.userId /\ t.type = "promotion"
                  /\ t.pointsEarned = pe /\ t.coinsAdded = ce
            /\ \A t \in transactions :
                  t.id = q => (t.pointsEarned = pe /\ t.coinsAdded = ce)
            /\ OthersIdle(q) =>
                  /\ users[r.userId].coinBalance =
                        InitUsers[r.userId].coinBalance + ce
                  /\ users[r.userId].pointBalance =
                        InitUsers[r.userId].pointBalance + pe)
    /\ [][\A q \in Reqs :
            ( /\ req[q].op = "promo"
              /\ req[q].pc = "ub_write"
              /\ req'[q].pc = "pr_createTx" )
            =>
            LET r == req[q]
                pr == CatalogPromotions[r.itemId]
            IN
            /\ users'[r.userId].coinBalance =
                  users[r.userId].coinBalance + GrantCoins(pr.type, pr.value)
            /\ users'[r.userId].pointBalance =
                  users[r.userId].pointBalance + GrantPoints(pr.type, pr.value)]_vars

\* C15 witness: the user redeemed the extra_coins promotion (value 2) and
\* then the discount promotion: two redemption rows, the second with a grant
\* of (0, 0), and the balance is the initial one plus 2 coins.
C15_Witness ==
    \E a \in Reqs, b \in Reqs :
        /\ req[a].op = "promo" /\ req[a].status = 200 /\ req[a].itemId = "p2"
        /\ req[b].op = "promo" /\ req[b].status = 200 /\ req[b].itemId = "p3"
        /\ req[a].userId = "u1" /\ req[b].userId = "u1"
        /\ \E x \in promotionRedemptions :
              x.id = b /\ x.pointsEarned = 0 /\ x.coinsEarned = 0
        /\ \E x \in promotionRedemptions : x.id = a /\ x.coinsEarned = 2
        /\ users["u1"].coinBalance = InitUsers["u1"].coinBalance + 2
        /\ users["u1"].pointBalance = InitUsers["u1"].pointBalance

\* C16: every accepted topUp on an existing user that is carried out writes
\* exactly one Transaction row, of type 'purchase' and status 'completed',
\* whose coinsAdded and pointsEarned are the deltas applied to the balance
\* and whose amount is the cash amount, and exactly one AdminAction row
\* tagged 'topup' naming the calling admin and the target user; no topUp
\* ever has more than one row of either kind.
C16_TopUpRows ==
    \A q \in Reqs :
        req[q].op = "topup" =>
        LET r == req[q]
            txs == {t \in transactions : t.id = q}
            acts == {a \in adminActions : a.id = q}
        IN
        /\ Cardinality(txs) <= 1 /\ Cardinality(acts) <= 1
        /\ \A t \in txs :
              /\ t.userId = r.userId /\ t.type = "purchase"
              /\ t.status = "completed"
              /\ t.coinsAdded = r.coinDelta /\ t.pointsEarned = r.pointDelta
              /\ t.amount = AmountPaid(r)
              /\ t.hasAmount <=> AmountPaid(r) # 0
              /\ OthersIdle(q) =>
                    /\ users[r.userId].coinBalance =
                          InitUsers[r.userId].coinBalance + t.coinsAdded
                    /\ users[r.userId].pointBalance =
                          InitUsers[r.userId].pointBalance + t.pointsEarned
        /\ \A a \in acts :
              /\ a.action = "topup" /\ a.adminId = r.principal
              /\ a.targetUserId = r.userId
              /\ a.coins = r.coinDelta /\ a.points = r.pointDelta
              /\ a.amount = AmountPaid(r)
        /\ r.status = 200 =>
              /\ r.userId \in UserIds
              /\ Cardinality(txs) = 1 /\ Cardinality(acts) = 1
              /\ OthersIdle(q) =>
                    (Cardinality(transactions) = 1 /\ Cardinality(adminActions) = 1)

\* C16 witness: a topUp of 2 coins for 149.99 was answered 200: one
\* completed 'purchase' row (2 coins, 2 points, 149.99) and one 'topup'
\* AdminAction row of the admin for the user.
C16_Witness ==
    \E q \in Reqs :
        /\ req[q].op = "topup" /\ req[q].status = 200
        /\ req[q].coins = Num(250) /\ req[q].amount = Num(14999)
        /\ \E t \in transactions :
              /\ t.id = q /\ t.type = "purchase" /\ t.status = "completed"
              /\ t.coinsAdded = 2 /\ t.pointsEarned = 2 /\ t.amount = 14999
        /\ \E a \in adminActions :
              /\ a.id = q /\ a.action = "topup"
              /\ a.adminId = "adm" /\ a.targetUserId = "u1"
        /\ users["u1"].coinBalance = InitUsers["u1"].coinBalance + 2

\* request q's 'purchase' ledger row is in the store
HasPurchaseRow(q) == \E t \in transactions : t.id = q /\ t.type = "purchase"

\* C17: the reported outcome of an admin mutation does not depend on the
\* audit log.  A topUp whose balance change and 'purchase' row are committed,
\* or an admin claim whose redemption is committed, is answered as
\* successful, also when the logAdminAction write that follows fails.
C17_AuditFailureNotReported ==
    \A q \in Reqs :
        /\ (req[q].op = "topup" /\ req[q].pc = "done" /\ HasPurchaseRow(q))
              => req[q].status = 200
        /\ (req[q].op = "claim" /\ req[q].pc = "done" /\ HasRedemption(q))
              => req[q].status = 200

\* C18: an AdminAction row is written only after its paired mutation has
\* committed.  Every 'topup' row has the 'purchase' Transaction of its
\* request for its target user (and the balance change behind it), every
\* 'admin_reward_claim' row has the RewardRedemption of its request; the
\* rows were already there in the step that wrote the AdminAction; and a
\* failed topUp or admin claim has no AdminAction row.
C18_AuditAfterMutation ==
    /\ [](\A a \in adminActions :
            /\ a.action = "topup" =>
                  /\ req[a.id].op = "topup" /\ req[a.id].status = 200
                  /\ \E t \in transactions :
                        /\ t.id = a.id /\ t.type = "purchase"
                        /\ t.userId = a.targetUserId
                        /\ t.coinsAdded = a.coins /\ t.pointsEarned = a.points
                  /\ OthersIdle(a.id) =>
                        /\ users[a.targetUserId].coinBalance =
                              InitUsers[a.targetUserId].coinBalance + a.coins
                        /\ users[a.targetUserId].pointBalance =
                              InitUsers[a.targetUserId].pointBalance + a.points
            /\ a.action = "admin_reward_claim" =>
                  /\ req[a.id].op = "claim" /\ req[a.id].status = 200
                  /\ \E x \in rewardRedemptions :
                        /\ x.id = a.id /\ x.userId = a.targetUserId
                        /\ x.pointsSpent = a.points
                  /\ HasRewardLedger(a.id))
    /\ [](\A q \in Reqs :
            ( /\ req[q].op \in {"topup", "claim"}
              /\ req[q].pc = "done" /\ req[q].status # 200 )
            => ~\E a \in adminActions : a.id = q)
    /\ [][adminActions' # adminActions =>
            \E q \in Reqs :
                /\ \E a \in adminActions' :
                      a.id = q /\ adminActions' = adminActions \cup {a}
                /\ \/ req[q].pc = "tu_logAdmin" /\ HasPurchaseRow(q)
                   \/ req[q].pc = "cl_logAdmin" /\ HasRedemption(q)]_vars

\* C18 witness: a topUp and an admin claim have both been audited, each
\* with its committed rows, in one state.
C18_Witness ==
    \E a \in adminActions, b \in adminActions :
        /\ a.action = "topup" /\ b.action = "admin_reward_claim"
        /\ HasPurchaseRow(a.id) /\ HasRedemption(b.id)
        /\ req[a.id].status = 200 /\ req[b.id].status = 200

\* C19: the status of a RewardRedemption only moves pending -> completed or
\* pending -> cancelled: in every step each row stays, a row whose status
\* changes was pending and becomes completed or cancelled (so a completed
\* or cancelled row never changes status again), and claimedAt stays.
C19_StatusOnlyLeavesPending ==
    [][\A x \in rewardRedemptions :
          \E y \in rewardRedemptions' :
              /\ y.id = x.id
              /\ y.claimedAt = x.claimedAt
              /\ y.status # x.status =>
                    (x.status = "pending" /\ y.status \in {"completed", "cancelled"})]_vars

\* C20: an operation on an entity that does not exist fails with a not-found
\* error and writes nothing: updateRedemptionStatus on a redemption id that
\* is in no row, and topUp on a userId that is in no row, are answered with
\* a not-found failure and add no AdminAction and no Transaction row.
C20_MissingEntityNotFound ==
    \A q \in Reqs :
        /\ ( /\ req[q].op = "status" /\ req[q].pc = "done"
             /\ IsAdmin(req[q].principal)
             /\ req[q].redemptionId = NoRedemption
             /\ req[q].msg # "store failure" )
           =>
           /\ req[q].status = 404
           /\ ~\E a \in adminActions : a.id = q
           /\ ~\E t \in transactions : t.id = q
        /\ ( /\ req[q].op = "topup" /\ req[q].pc = "done"
             /\ IsAdmin(req[q].principal)
             /\ req[q].userId = NoUser
             /\ req[q].msg # "store failure" )
           =>
           /\ req[q].status \in {404, 500}
           /\ req[q].msg = "User not found"
           /\ ~\E a \in adminActions : a.id = q
           /\ ~\E t \in transactions : t.id = q

\* the operations behind requireAdmin and those behind requireAuth
AdminOps ==
    {"topup", "claim", "status", "rewardCreate", "rewardUpdate",
     "rewardDelete", "promoCreate", "promoUpdate", "promoDelete"}

AuthOps == {"promo", "reward"}

\* the principal is not an authenticated user with the admin role
NotAnAdmin(p) == p \notin UserIds \/ InitUsers[p].role # "admin"

\* request q was made by a principal its route does not admit
Unauthorized(r) ==
    \/ r.op \in AdminOps /\ NotAnAdmin(r.principal)
    \/ r.op \in AuthOps /\ r.principal \notin UserIds

\* some row of some table was written by request q
HasAnyRow(q) ==
    \/ \E t \in transactions : t.id = q
    \/ \E x \in promotionRedemptions : x.id = q
    \/ \E x \in rewardRedemptions : x.id = q
    \/ \E a \in adminActions : a.id = q
    \/ NewId(q) \in DOMAIN promotions \cup DOMAIN rewards

\* C21: every admin operation (topUp, claimRewardForUser,
\* updateRedemptionStatus, promotion and reward create/update/delete)
\* requested by a principal that is unauthenticated or not an admin, and
\* every authenticated-only operation (redeemPromotion, redeemReward)
\* requested without an authenticated principal, is rejected at once with
\* 401 or 403; the request never acts and the store is left as it was.
C21_UnauthorizedRejected ==
    /\ [][\A q \in Reqs :
            (req[q].op = "idle" /\ Unauthorized(req'[q]))
            =>
            ( /\ req'[q].pc = "done"
              /\ req'[q].status \in {401, 403}
              /\ UNCHANGED store )]_vars
    /\ [][\A q \in Reqs : Unauthorized(req[q]) => req'[q] = req[q]]_vars
    /\ [](\A q \in Reqs :
            Unauthorized(req[q]) =>
                /\ req[q].pc = "done"
                /\ req[q].status \in {401, 403}
                /\ ~HasAnyRow(q)
                /\ OthersIdle(q) =>
                      /\ users = InitUsers /\ transactions = {}
                      /\ promotions = InitPromotions /\ promotionRedemptions = {}
                      /\ rewards = InitRewards /\ rewardRedemptions = {}
                      /\ adminActions = {})

\* C21 witness: a reward update by a user who is no admin was answered 403
\* and a promotion redemption without a session 401, the store untouched.
C21_Witness ==
    \E a \in Reqs, b \in Reqs :
        /\ req[a].op = "rewardUpdate" /\ req[a].principal = "u1"
        /\ req[a].status = 403
        /\ req[b].op = "promo" /\ req[b].principal = Anon
        /\ req[b].status = 401
        /\ rewards = InitRewards /\ promotions = InitPromotions
        /\ users = InitUsers /\ adminActions = {}

\* C22: the Transaction ledger is append-only.  No step removes or alters
\* a Transaction row: every row of a state is, unchanged, a row of the next
\* state, and no row of the next state shares its id with a different
\* earlier row.
C22_LedgerAppendOnly ==
    [][/\ \A t \in transactions : t \in transactions'
       /\ \A t \in transactions, n \in transactions' :
             n.id = t.id => n = t]_vars

\* C22 witness: two requests have each written a ledger row, a 'purchase'
\* and a 'reward_redemption', and both rows are in the ledger.
C22_Witness ==
    \E a \in transactions, b \in transactions :
        /\ a.type = "purchase" /\ b.type = "reward_redemption"
        /\ a.id # b.id
        /\ req[a.id].status = 200 /\ req[b.id].status = 200

\* the sum of amount over a set of ledger rows, a missing amount counting 0
RECURSIVE SumAmount(_)
SumAmount(rows) ==
    IF rows = {} THEN 0
    ELSE LET t == CHOOSE y \in rows : TRUE
         IN (IF t.hasAmount THEN t.amount ELSE 0) + SumAmount(rows \ {t})

\* the ledger rows of type 'purchase'
PurchasesOfLedger == {t \in transactions : t.type = "purchase"}

\* request q is an analytics request that was answered with its figures
AnalyticsDone(q) ==
    req[q].op = "analytics" /\ req[q].pc = "done" /\ req[q].status = 200

\* C23: analytics is a pure function of the ledger.  A getSalesAnalytics
\* call returns totalRevenue = the sum of amount over the 'purchase' rows (a
\* missing amount counting 0), totalTransactions = their number and
\* averageTransaction = their quotient (0 when there are none), and changes
\* no state; two calls with no Transaction written in between return the
\* same figures.
C23_AnalyticsPure ==
    /\ [][\A q \in RunReqs :
            (req[q].pc = "an_get" /\ AnalyticsDone(q)')
            =>
            LET n == Cardinality(PurchasesOfLedger) IN
            /\ req'[q].outRevenue = SumAmount(PurchasesOfLedger)
            /\ req'[q].outCount = n
            /\ IF n = 0
               THEN req'[q].outAverage.num = 0
               ELSE req'[q].outAverage.num * n =
                       SumAmount(PurchasesOfLedger) * req'[q].outAverage.den
            /\ UNCHANGED store]_vars
    /\ [](\A a \in RunReqs, b \in RunReqs :
            ( /\ a < b /\ AnalyticsDone(a) /\ AnalyticsDone(b)
              /\ \A c \in RunReqs :
                    (a < c /\ c < b) => ~\E t \in transactions : t.id = c )
            =>
            /\ req[a].outRevenue = req[b].outRevenue
            /\ req[a].outCount = req[b].outCount
            /\ req[a].outAverage = req[b].outAverage)

\* C23 witness: after a topup for 100.00, two analytics calls in a row both
\* returned revenue 100.00 over 1 transaction.
C23_Witness ==
    \E a \in RunReqs, b \in RunReqs :
        /\ a < b /\ AnalyticsDone(a) /\ AnalyticsDone(b)
        /\ req[a].outRevenue = 10000 /\ req[a].outCount = 1
        /\ req[b].outRevenue = 10000 /\ req[b].outCount = 1
        /\ req[b].outAverage = [num |-> 10000, den |-> 1]

\* C24: every RewardRedemption row is committed with pointsSpent equal to
\* the reward's pointsRequired as stored when the redemption commits, and
\* the user then holds at least that many points, also when an admin
\* changes pointsRequired between the request's first read of the reward
\* and the transaction.
C24_PointsSpentIsStoredPrice ==
    [][\A x \in rewardRedemptions' :
          (~\E y \in rewardRedemptions : y.id = x.id)
          =>
          /\ x.pointsSpent = rewards[x.rewardId].pointsRequired
          /\ users[x.userId].pointBalance >= rewards[x.rewardId].pointsRequired]_vars

\* C25: a RewardRedemption created by self-service redeemReward starts as
\* 'pending' with a code prefixed 'RWD-'; one created by the admin
\* claimRewardForUser starts as 'completed' with a code prefixed 'ADMIN-',
\* and a claim that is answered as successful has exactly one
\* 'admin_reward_claim' AdminAction row naming the admin and the target
\* user (no claim ever has more than one).
C25_RedemptionStartsByRoute ==
    /\ [][\A x \in rewardRedemptions' :
            (~\E y \in rewardRedemptions : y.id = x.id)
            =>
            /\ req[x.id].op = "reward" =>
                  (x.status = "pending" /\ x.codePrefix = "RWD-")
            /\ req[x.id].op = "claim" =>
                  (x.status = "completed" /\ x.codePrefix = "ADMIN-")
            /\ req[x.id].op \in {"reward", "claim"}]_vars
    /\ [](\A q \in Reqs :
            req[q].op = "claim" =>
            LET acts == {a \in adminActions : a.id = q} IN
            /\ Cardinality(acts) <= 1
            /\ \A a \in acts :
                  /\ a.action = "admin_reward_claim"
                  /\ a.adminId = req[q].principal
                  /\ a.targetUserId = req[q].userId
                  /\ HasRedemption(q)
            /\ req[q].status = 200 => Cardinality(acts) = 1)
    /\ [](\A q \in Reqs :
            req[q].op = "reward" => ~\E a \in adminActions : a.id = q)

\* C25 witness: a self-service redemption ('pending', 'RWD-') and an admin
\* claim ('completed', 'ADMIN-', with its AdminAction row) are both in the
\* store.
C25_Witness ==
    \E x \in rewardRedemptions, y \in rewardRedemptions :
        /\ req[x.id].op = "reward" /\ x.status = "pending"
        /\ x.codePrefix = "RWD-"
        /\ req[y.id].op = "claim" /\ y.status = "completed"
        /\ y.codePrefix = "ADMIN-"
        /\ \E a \in adminActions :
              /\ a.id = y.id /\ a.action = "admin_reward_claim"
              /\ a.adminId = "adm" /\ a.targetUserId = y.userId

\* C26: starting from rewards with stock >= 0, after any interleaving of
\* redeemReward and claimRewardForUser requests (no admin reward edits),
\* every reward's stock is >= 0 in every reachable state.
C26_StockNeverNegative ==
    \A id \in DOMAIN rewards : rewards[id].stock >= 0

\* C26 witness: two requests for the last unit of a reward both committed
\* (both selected stock 1 before either wrote) and the stock is 0.
C26_Witness ==
    \E id \in DOMAIN rewards :
        /\ InitRewards[id].stock = 1
        /\ rewards[id].stock = 0
        /\ Cardinality({x \in rewardRedemptions : x.rewardId = id}) = 2

\* C27: a reward is never oversold: absent admin reward edits, in every
\* reachable state and for every reward, initial stock = current stock + the
\* number of committed RewardRedemption rows for that reward, for any number
\* of concurrent redeemReward and claimRewardForUser requests.
C27_StockAccountsForRedemptions ==
    \A id \in DOMAIN rewards :
        InitRewards[id].stock =
            rewards[id].stock
            + Cardinality({x \in rewardRedemptions : x.rewardId = id})

\* the promotion_redemptions rows that reference promotion p
RedemptionsOfPromotion(p) == {x \in promotionRedemptions : x.promotionId = p}

\* the rows that reference promotion p are of pairwise different users
ByDifferentUsers(p) ==
    \A x \in RedemptionsOfPromotion(p), y \in RedemptionsOfPromotion(p) :
        x.userId = y.userId => x = y

\* C28: absent admin promotion edits, in every reachable state and for every
\* promotion, currentRedemptions equals the number of PromotionRedemption
\* rows that reference it, for any interleaving of redeemPromotion requests
\* by different users.
C28_CounterMatchesRedemptions ==
    \A p \in DOMAIN promotions :
        ByDifferentUsers(p) =>
            promotions[p].currentRedemptions
                = Cardinality(RedemptionsOfPromotion(p))

\* C29: in every reachable state a RewardRedemption has completedAt set if
\* and only if its status is 'completed', for redemptions created by
\* self-service redeemReward or by admin claimRewardForUser and then changed
\* by any sequence of updateRedemptionStatus calls.
C29_CompletedAtIffCompleted ==
    \A x \in rewardRedemptions :
        x.hasCompletedAt <=> (x.status = "completed")

\* C30: a topUp that passes validation never lowers either balance of the
\* target user: for every accepted request the applied coinDelta and
\* pointDelta are both >= 0, for all numeric coins and amount inputs
\* including negative ones.
C30_AcceptedTopUpNeverLowers ==
    \A q \in Reqs :
        TopUpAccepted(q) =>
            /\ req[q].coinDelta >= 0
            /\ req[q].pointDelta >= 0

====
